---- MODULE Spec2Model ----
(***************************************************************************)
(* Model of the face-lock pipeline of app/api/transform-gemini/route.ts:   *)
(* the lazily cached inference session (getRetinaSession), the detector    *)
(* output decoding (decodeRetinaOutput, expandBox), the blend mask         *)
(* (ovalMask), the compositor (faceLockComposite) and the POST handler      *)
(* that calls it.                                                           *)
(*                                                                         *)
(* Scheduling: Node.js runs one callback at a time.  An action of this     *)
(* model is the code that runs when one awaited I/O operation completes,   *)
(* up to the next awaited I/O operation (promise continuations that follow *)
(* without I/O run in the same turn).                                      *)
(*                                                                         *)
(* Numbers: JavaScript doubles are modelled by exact rational arithmetic   *)
(* on integers.  Tensor data (box coordinates in detector space, scores)   *)
(* is held in tenths: the value v stands for v/10.                         *)
(***************************************************************************)
EXTENDS Integers, Sequences, FiniteSets, TLC

(***************************************************************************)
(* Bounds of the model.                                                    *)
(***************************************************************************)
\* number of POST requests that may be in flight together
MaxReq == 2
\* the longer side of the larger test images, in pixels
MaxSide == 40
\* the longer side of the small masks computed on their own
MaxMaskSide == 8

(***************************************************************************)
(* Program constants.                                                      *)
(***************************************************************************)
RETINA_INPUT_SIZE == 640
OVAL_MASK_FEATHER_PX == 25
\* faceLockComposite: images with a side below this are passed through
MIN_IMAGE_SIDE == 32
\* decodeRetinaOutput: boxes with a side below this are no detection
MIN_BOX_SIDE == 16

(***************************************************************************)
(* JavaScript values that are not numbers.                                 *)
(***************************************************************************)
\* the value of a read past the end of a typed array, of a missing property
Undefined == 0 - 1000001
\* the result of arithmetic on undefined or NaN
NaN == 0 - 1000002
\* null (no session)
Null == 0

IsNum(v) == v # Undefined /\ v # NaN
\* ToNumber(undefined) is NaN
ToNumber(v) == IF v = Undefined THEN NaN ELSE v

\* a ?? b
Coalesce(a, b) == IF a = Undefined THEN b ELSE a

\* Math.max, Math.min: NaN if either argument is NaN
MathMax(a, b) == IF ~IsNum(a) \/ ~IsNum(b) THEN NaN ELSE IF a >= b THEN a ELSE b
MathMin(a, b) == IF ~IsNum(a) \/ ~IsNum(b) THEN NaN ELSE IF a <= b THEN a ELSE b

\* a < b in JavaScript: false when either side is NaN
JsLess(a, b) == IsNum(a) /\ IsNum(b) /\ a < b
JsGreater(a, b) == IsNum(a) /\ IsNum(b) /\ a > b

\* Math.floor(n / d) and Math.ceil(n / d) for integers n and d > 0
FloorDiv(n, d) == n \div d
CeilDiv(n, d) == 0 - ((0 - n) \div d)

\* typedArray[i], i counted from 0
ReadAt(data, i) == IF i >= 0 /\ i < Len(data) THEN data[i + 1] ELSE Undefined

SetMax(S) == CHOOSE m \in S : \A k \in S : k <= m

(***************************************************************************)
(* Letterbox parameters as decodeRetinaOutput computes them.               *)
(*   scale   = min(640 / imgW, 640 / imgH) = 640 / max(imgW, imgH)         *)
(*   padLeft = floor((640 - imgW * scale) / 2)                             *)
(* The scale is kept as the fraction RETINA_INPUT_SIZE / ScaleDen.         *)
(***************************************************************************)
ScaleDen(imgW, imgH) == IF imgW >= imgH THEN imgW ELSE imgH

DecodePad(side, imgW, imgH) ==
    FloorDiv(RETINA_INPUT_SIZE * (ScaleDen(imgW, imgH) - side), 2 * ScaleDen(imgW, imgH))

(***************************************************************************)
(* decodeRetinaOutput, lines 103-149.                                      *)
(* outputs: the sequence of the session's output tensors in key order,     *)
(* each [dims |-> sequence, data |-> sequence of tenths].                  *)
(***************************************************************************)
NullBox == [isNull |-> TRUE]

IsBoxTensor(t) == Len(t.dims) = 3 /\ t.dims[3] >= 4
IsScoreTensor(t) == Len(t.dims) >= 2 /\ (t.dims[2] = 2 \/ t.dims[2] = 1)

\* the loop of lines 112-119 keeps the last tensor that matches
BoxTensorIdx(outputs) ==
    LET S == {i \in 1..Len(outputs) : IsBoxTensor(outputs[i])}
    IN  IF S = {} THEN 0 ELSE SetMax(S)

ScoreTensorIdx(outputs) ==
    LET S == {i \in 1..Len(outputs) : IsScoreTensor(outputs[i])}
    IN  IF S = {} THEN 0 ELSE SetMax(S)

\* line 126: the score read for detection i
ScoreOf(scores, nDet, i) ==
    IF Len(scores) > nDet * 2
    THEN Coalesce(ReadAt(scores, i * 2 + 1), ReadAt(scores, i))
    ELSE ReadAt(scores, i)

\* lines 122-132: the loop over the detections, from detection i on
RECURSIVE BestLoop(_, _, _, _, _)
BestLoop(scores, nDet, i, bestIdx, bestScore) ==
    IF i >= nDet THEN bestIdx
    ELSE LET sc == ScoreOf(scores, nDet, i)
         IN  IF JsGreater(ToNumber(sc), bestScore)
             THEN BestLoop(scores, nDet, i + 1, i, sc)
             ELSE BestLoop(scores, nDet, i + 1, bestIdx, bestScore)

BestIdx(outputs) ==
    LET boxes == outputs[BoxTensorIdx(outputs)].data
        nDet == Len(boxes) \div 4
        si == ScoreTensorIdx(outputs)
    IN  IF si # 0 /\ Len(outputs[si].data) >= nDet
        THEN BestLoop(outputs[si].data, nDet, 0, 0, 5)
        ELSE 0

\* lines 136-139: a detector coordinate b (tenths) mapped to image space is
\* (b/10 - pad) / scale = (b - 10 pad) * ScaleDen / 6400; kept as the numerator
MapNum(b, pad, den) == IF ~IsNum(b) THEN NaN ELSE (b - 10 * pad) * den

\* line 140: Math.max(0, Math.floor(x1))
BoxStart(num) ==
    IF ~IsNum(num) THEN NaN
    ELSE MathMax(0, FloorDiv(num, 10 * RETINA_INPUT_SIZE))

\* line 142 without the clamp to the image
BoxSizeNoClamp(img, start, num1, num2) ==
    IF ~IsNum(start) \/ ~IsNum(num1) \/ ~IsNum(num2) THEN NaN
    ELSE MathMax(1, CeilDiv(num2 - num1, 10 * RETINA_INPUT_SIZE))

\* line 142: Math.min(imgW - x, Math.max(1, Math.ceil(x2 - x1)))
BoxSize(img, start, num1, num2) ==
    IF ~IsNum(start) \/ ~IsNum(num1) \/ ~IsNum(num2) THEN NaN
    ELSE MathMin(img - start, MathMax(1, CeilDiv(num2 - num1, 10 * RETINA_INPUT_SIZE)))

decodeRetinaOutput(outputs, imgW, imgH) ==
    IF BoxTensorIdx(outputs) = 0 THEN NullBox
    ELSE
      LET boxes == outputs[BoxTensorIdx(outputs)].data
          bestIdx == BestIdx(outputs)
          den == ScaleDen(imgW, imgH)
          padLeft == DecodePad(imgW, imgW, imgH)
          padTop == DecodePad(imgH, imgW, imgH)
          x1 == MapNum(ToNumber(ReadAt(boxes, bestIdx * 4 + 0)), padLeft, den)
          y1 == MapNum(ToNumber(ReadAt(boxes, bestIdx * 4 + 1)), padTop, den)
          x2 == MapNum(ToNumber(ReadAt(boxes, bestIdx * 4 + 2)), padLeft, den)
          y2 == MapNum(ToNumber(ReadAt(boxes, bestIdx * 4 + 3)), padTop, den)
          x == BoxStart(x1)
          y == BoxStart(y1)
          w == BoxSize(imgW, x, x1, x2)
          h == BoxSize(imgH, y, y1, y2)
      IN  IF JsLess(w, MIN_BOX_SIDE) \/ JsLess(h, MIN_BOX_SIDE) THEN NullBox
          ELSE [x |-> x, y |-> y, w |-> w, h |-> h]

(***************************************************************************)
(* expandBox, lines 170-181: pad = 0.15, so box.w * pad = 3 box.w / 20.    *)
(***************************************************************************)
ExpandLo(start, size) ==
    IF ~IsNum(start) \/ ~IsNum(size) THEN NaN
    ELSE MathMax(0, FloorDiv(20 * start - 3 * size, 20))

ExpandHi(img, start, size) ==
    IF ~IsNum(start) \/ ~IsNum(size) THEN NaN
    ELSE MathMin(img, CeilDiv(20 * (start + size) + 3 * size, 20))

ExpandSize(lo, hi) == IF ~IsNum(lo) \/ ~IsNum(hi) THEN NaN ELSE MathMax(1, hi - lo)

expandBox(box, imgW, imgH) ==
    LET x == ExpandLo(box.x, box.w)
        y == ExpandLo(box.y, box.h)
        x2 == ExpandHi(imgW, box.x, box.w)
        y2 == ExpandHi(imgH, box.y, box.h)
    IN  [x |-> x, y |-> y, w |-> ExpandSize(x, x2), h |-> ExpandSize(y, y2)]

(***************************************************************************)
(* ovalMask, lines 183-201, in exact arithmetic.                           *)
(*   rx = 17 w / 40, ry = 18 h / 40, max(rx, ry) = m / 40                  *)
(*   d  = 10 sqrt(n) / (153 w h), n = (18h(2x-w))^2 + (17w(2y-h))^2        *)
(*   inner = (m - 40 featherPx) / m                                        *)
(* Comparisons against sqrt(n) are made on fractions without forming the   *)
(* large products.  A value that is exactly half way between two integers  *)
(* is rounded up, as Math.round does.                                      *)
(***************************************************************************)
\* a / b <= c / d, for a, c >= 0 and b, d > 0
RECURSIVE FracLeq(_, _, _, _)
FracLeq(a, b, c, d) ==
    IF a \div b # c \div d THEN a \div b < c \div d
    ELSE IF a % b = 0 THEN TRUE
    ELSE IF c % d = 0 THEN FALSE
    ELSE FracLeq(d, c % d, b, a % b)

\* sqrt(n) <= p / q, for n >= 0 and q > 0
SqrtLeq(n, p, q) ==
    IF p < 0 THEN FALSE ELSE IF p = 0 THEN n = 0 ELSE FracLeq(n, p, p, q * q)

\* the distance without the division by rx and ry
MaskDist2Circular(w, h, x, y) ==
    (2 * x - w) * (2 * x - w) + (2 * y - h) * (2 * y - h)

MaskDist2(w, h, x, y) ==
    (18 * h * (2 * x - w)) * (18 * h * (2 * x - w)) + (17 * w * (2 * y - h)) * (17 * w * (2 * y - h))

MaskAxis(w, h) == IF 17 * w >= 18 * h THEN 17 * w ELSE 18 * h

\* line 196, d >= 1
MaskOutside(w, h, x, y) == FracLeq(153 * w * h, 100, MaskDist2(w, h, x, y), 153 * w * h)

\* line 196, d <= inner
MaskInside(w, h, featherPx, x, y) ==
    SqrtLeq(MaskDist2(w, h, x, y),
            153 * w * h * (MaskAxis(w, h) - 40 * featherPx), 10 * MaskAxis(w, h))

\* lines 196-197, Math.round(255 * (1 - d) / (1 - inner)) >= k
MaskAtLeast(w, h, featherPx, x, y, k) ==
    SqrtLeq(MaskDist2(w, h, x, y),
            3 * w * h * (51 * MaskAxis(w, h) - 4 * featherPx * (2 * k - 1)), 10 * MaskAxis(w, h))

\* the largest k in lo..hi with MaskAtLeast, which holds of lo
RECURSIVE MaskRamp(_, _, _, _, _, _, _)
MaskRamp(w, h, featherPx, x, y, lo, hi) ==
    IF lo = hi THEN lo
    ELSE LET mid == (lo + hi + 1) \div 2
         IN  IF MaskAtLeast(w, h, featherPx, x, y, mid)
             THEN MaskRamp(w, h, featherPx, x, y, mid, hi)
             ELSE MaskRamp(w, h, featherPx, x, y, lo, mid - 1)

\* a mask without the ellipse: opaque everywhere
ovalMaskAtOpaque(w, h, featherPx, x, y) == 255

\* buf[y * w + x] of ovalMask(w, h, featherPx)
ovalMaskAt(w, h, featherPx, x, y) ==
    IF MaskOutside(w, h, x, y) THEN 0
    ELSE IF MaskInside(w, h, featherPx, x, y) THEN 255
    ELSE MaskRamp(w, h, featherPx, x, y, 0, 255)

\* the buffer, indexed from 0
ovalMask(w, h, featherPx) ==
    [i \in 0..(w * h - 1) |-> ovalMaskAt(w, h, featherPx, i % w, i \div w)]

(***************************************************************************)
(* Inputs of the model.                                                    *)
(* What sharp reports for an image (metadata) and what the detector        *)
(* returns for it (the output tensors) are chosen when the code asks.      *)
(***************************************************************************)
\* sharp(...).metadata() of an image that decodes: <<width, height>>
UnderSizes == {<<MIN_IMAGE_SIDE - 1, MaxSide>>, <<MaxSide, 10>>, <<Undefined, Undefined>>}
OrigSizes == {<<MIN_IMAGE_SIDE, MIN_IMAGE_SIDE>>, <<MIN_IMAGE_SIDE, MaxSide>>}
GenSizes == {<<MIN_IMAGE_SIDE, MIN_IMAGE_SIDE>>, <<MaxSide, MIN_IMAGE_SIDE>>,
             <<MaxSide - 3, MaxSide>>}

\* detector boxes <<x1, y1, x2, y2>> in detector space, in tenths
FaceA == <<1000, 1000, 5000, 5600>>
\* a box that reaches past the right and bottom edges of the detector input
FaceEdge == <<3000, 2000, 7000, 6600>>
\* a box that starts left of and above the detector input
FaceNeg == <<0 - 1000, 0 - 400, 4000, 5000>>
FaceSmall == <<1000, 1000, 2000, 2000>>

Tensor(dims, data) == [dims |-> dims, data |-> data]
\* no output tensor at all
OutNone == <<>>
\* one box, no score tensor
OutSingle(f) == <<Tensor(<<1, 1, 4>>, f)>>
\* a box tensor with no detection in it
OutEmpty == <<Tensor(<<1, 0, 4>>, <<>>)>>
\* three boxes and one score for each (0.2, 0.9, 0.7)
OutScored == <<Tensor(<<1, 3, 4>>, FaceSmall \o FaceA \o FaceEdge), Tensor(<<3, 1>>, <<2, 9, 7>>)>>

OrigOutputs == {OutNone, OutEmpty, OutSingle(FaceA), OutScored}
GenOutputs == {OutNone, OutEmpty, OutSingle(FaceA), OutSingle(FaceEdge),
               OutSingle(FaceNeg), OutSingle(FaceSmall)}

\* the images of a run: the sizes and the detector outputs its requests meet
WideInputs ==
    [origSizes |-> UnderSizes \cup OrigSizes, genSizes |-> UnderSizes \cup GenSizes,
     origOutputs |-> OrigOutputs, genOutputs |-> GenOutputs]

\* a run of concurrent requests meets fewer kinds of image
PlainInputs ==
    [origSizes |-> {<<MIN_IMAGE_SIDE, MaxSide>>},
     genSizes |-> {<<MIN_IMAGE_SIDE - 1, MaxSide>>, <<MaxSide, MIN_IMAGE_SIDE>>},
     origOutputs |-> {OutSingle(FaceA)},
     genOutputs |-> {OutNone, OutSingle(FaceEdge)}]

(***************************************************************************)
(* State.                                                                  *)
(***************************************************************************)
VARIABLES
    inputs,         \* the images the requests of this run carry (the environment)
    modelFiles,     \* the files present in models/ (the environment)
    retinaSession,  \* line 33: the cached session, Null or a session id
    nCreated,       \* sessions created so far by InferenceSession.create
    loadFailed,     \* history: some getRetinaSession call has returned null
    rq,             \* the requests: position and locals of each POST call
    calc            \* a call of one of the pure functions: arguments and result

vars == <<inputs, modelFiles, retinaSession, nCreated, loadFailed, rq, calc>>

Reqs == 1..MaxReq

FileNames == {"retinaface.onnx", "2d106det.onnx"}

\* no function call under study
NoCalc == [fn |-> "none"]

IdleReq ==
    [pc |-> "idle", steps |-> <<>>, gs |-> "none", session |-> Null,
     afterFail |-> FALSE, afterCached |-> Null,
     origMeta |-> <<>>, genMeta |-> <<>>,
     origW |-> 0, origH |-> 0, genW |-> 0, genH |-> 0,
     boxOrig |-> NullBox, boxGen |-> NullBox, expanded |-> NullBox,
     fl |-> "none", flValue |-> "none",
     outW |-> 0, outH |-> 0, left |-> 0, top |-> 0, overW |-> 0, overH |-> 0,
     status |-> 0, b64 |-> "none"]

\* a process that serves up to MaxReq requests, in any interleaving
Init ==
    /\ inputs = PlainInputs
    /\ modelFiles \in SUBSET FileNames
    /\ retinaSession = Null
    /\ nCreated = 0
    /\ loadFailed = FALSE
    /\ rq = [r \in Reqs |-> IdleReq]
    /\ calc = NoCalc

\* a process that serves one request, with images of every kind
InitCall ==
    /\ inputs = WideInputs
    /\ modelFiles \in SUBSET FileNames
    /\ retinaSession = Null
    /\ nCreated = 0
    /\ loadFailed = FALSE
    /\ rq = [r \in Reqs |-> IF r = 1 THEN IdleReq ELSE [IdleReq EXCEPT !.pc = "off"]]
    /\ calc = NoCalc

\* the record of request r with the fields of upd replaced
With(rec, upd) ==
    [f \in DOMAIN rec |-> IF f \in DOMAIN upd THEN upd[f] ELSE rec[f]]

Step(rec, name) == Append(rec.steps, name)

(***************************************************************************)
(* POST, lines 400-406: the end of faceLockComposite seen from the handler. *)
(* A returned value replaces b64; a rejection is swallowed by the empty    *)
(* catch and b64 stays the generated image.  Either way the handler        *)
(* answers NextResponse.json({ b64 }).                                     *)
(***************************************************************************)
FaceLockReturns(rec, value) ==
    With(rec, [pc |-> "done", fl |-> "returned", flValue |-> value,
               status |-> 200, b64 |-> value])

\* the code without the try/catch of lines 400-404: the rejection reaches line 407
FaceLockThrowsUncaught(rec) ==
    With(rec, [pc |-> "done", fl |-> "threw", flValue |-> "none", status |-> 500])

FaceLockThrows(rec) ==
    With(rec, [pc |-> "done", fl |-> "threw", flValue |-> "none",
               status |-> 200, b64 |-> "generated"])

(***************************************************************************)
(* faceLockComposite, lines 210-213: the code after                        *)
(* `await getRetinaSession()`.  Without a session the generated image is   *)
(* returned; with one, sharp(originalBuf).metadata() is started.           *)
(***************************************************************************)
\* the code without line 211
AfterSessionNoCheck(rec, session, how) ==
    With(rec, [gs |-> how, session |-> session, pc |-> "meta_orig",
               steps |-> Step(rec, "metadata_orig")])

AfterSession(rec, session, how) ==
    IF session = Null
    THEN FaceLockReturns(With(rec, [gs |-> how, session |-> Null]), "generated")
    ELSE With(rec, [gs |-> how, session |-> session, pc |-> "meta_orig",
                    steps |-> Step(rec, "metadata_orig")])

(***************************************************************************)
(* POST, lines 289-343: up to the call of the generative service.          *)
(***************************************************************************)
\* lines 291-299: the API key check, then `await req.json()` is started
PostStart(r) ==
    /\ rq[r].pc = "idle"
    /\ \E apiKey \in BOOLEAN :
         rq' = [rq EXCEPT ![r] =
                  IF apiKey THEN With(@, [pc |-> "body"])
                  ELSE With(@, [pc |-> "done", status |-> 500])]
    /\ UNCHANGED <<calc, inputs, modelFiles, retinaSession, nCreated, loadFailed>>

\* lines 299-346: the body is validated, then `await fetch(url, ...)` is started
BodyKinds == {"badJson", "invalidSchema", "notDataUrl", "tooLarge", "ok"}

PostBody(r) ==
    /\ rq[r].pc = "body"
    /\ \E body \in BodyKinds :
         rq' = [rq EXCEPT ![r] =
                  IF body = "ok" THEN With(@, [pc |-> "fetch"])
                  ELSE With(@, [pc |-> "done", status |-> 400])]
    /\ UNCHANGED <<calc, inputs, modelFiles, retinaSession, nCreated, loadFailed>>

\* lines 346-370: fetch resolves (res.json() is started) or rejects (line 407)
GeminiFetch(r) ==
    /\ rq[r].pc = "fetch"
    /\ \E resolved \in BOOLEAN :
         rq' = [rq EXCEPT ![r] =
                  IF resolved THEN With(@, [pc |-> "gemini_json"])
                  ELSE With(@, [pc |-> "done", status |-> 500])]
    /\ UNCHANGED <<calc, inputs, modelFiles, retinaSession, nCreated, loadFailed>>

(***************************************************************************)
(* POST, lines 370-401, faceLockComposite, lines 207-210, and              *)
(* getRetinaSession, lines 36-39: the answer of the generative service.    *)
(* With an image in it faceLockComposite is called; it calls               *)
(* getRetinaSession, which returns the cached session at once (line 36)    *)
(* or starts `await import("fs/promises")`.                                *)
(***************************************************************************)
GeminiAnswers == {"rejected", "notOk", "noImage", "image"}

\* line 36: if (retinaSession) return retinaSession
CachedSession(cache) == cache

GetSessionStart(rec, cache, failedBefore) ==
    LET called == With(rec, [fl |-> "running", afterFail |-> failedBefore,
                             afterCached |-> cache,
                             steps |-> Step(rec, "getRetinaSession")])
    IN  IF CachedSession(cache) # Null
        THEN AfterSession(called, CachedSession(cache), "cached")
        ELSE With(called, [pc |-> "gs_import", gs |-> "running"])

GeminiRespond(r) ==
    /\ rq[r].pc = "gemini_json"
    /\ \E answer \in GeminiAnswers :
         rq' = [rq EXCEPT ![r] =
                  IF answer = "image"
                  THEN GetSessionStart(@, retinaSession, loadFailed)
                  ELSE With(@, [pc |-> "done", status |-> 500])]
    /\ UNCHANGED <<calc, inputs, modelFiles, retinaSession, nCreated, loadFailed>>

(***************************************************************************)
(* getRetinaSession, lines 37-48.                                          *)
(***************************************************************************)
\* line 39 resolves; line 40: `await fs.access(modelPath)` is started
GsImport(r) ==
    /\ rq[r].pc = "gs_import"
    /\ rq' = [rq EXCEPT ![r] = With(@, [pc |-> "gs_access", steps |-> Step(@, "fs.access")])]
    /\ UNCHANGED <<calc, inputs, modelFiles, retinaSession, nCreated, loadFailed>>

\* line 40 resolves and line 41 starts InferenceSession.create, or line 40
\* rejects and the catch of line 46 returns null
GsAccess(r) ==
    /\ rq[r].pc = "gs_access"
    /\ IF "retinaface.onnx" \in modelFiles
       THEN /\ rq' = [rq EXCEPT ![r] =
                        With(@, [pc |-> "gs_create",
                                 steps |-> Step(@, "InferenceSession.create")])]
            /\ UNCHANGED loadFailed
       ELSE /\ rq' = [rq EXCEPT ![r] = AfterSession(@, Null, "failed")]
            /\ loadFailed' = TRUE
    /\ UNCHANGED <<calc, inputs, modelFiles, retinaSession, nCreated>>

\* line 41: the value assigned to retinaSession when create resolves
StoredSession(created, cache) == created

\* line 41 resolves (the new session is stored and returned) or rejects
GsCreate(r) ==
    /\ rq[r].pc = "gs_create"
    /\ \E loaded \in BOOLEAN :
         IF loaded
         THEN /\ nCreated' = nCreated + 1
              /\ retinaSession' = StoredSession(nCreated + 1, retinaSession)
              /\ rq' = [rq EXCEPT ![r] = AfterSession(@, retinaSession', "loaded")]
              /\ UNCHANGED loadFailed
         ELSE /\ rq' = [rq EXCEPT ![r] = AfterSession(@, Null, "failed")]
              /\ loadFailed' = TRUE
              /\ UNCHANGED <<retinaSession, nCreated>>
    /\ UNCHANGED <<calc, inputs, modelFiles>>

(***************************************************************************)
(* sharp, as faceLockComposite uses it.                                    *)
(***************************************************************************)
\* extract() accepts non-negative integers only, and throws otherwise
ExtractArgsOk(b) == IsNum(b.x) /\ IsNum(b.y) /\ IsNum(b.w) /\ IsNum(b.h)
                    /\ b.x >= 0 /\ b.y >= 0 /\ b.w >= 0 /\ b.h >= 0
\* the extraction fails for an area that is empty or leaves the image
ExtractAreaOk(b, imgW, imgH) == b.w >= 1 /\ b.h >= 1 /\ b.x + b.w <= imgW /\ b.y + b.h <= imgH
\* resize() accepts positive integers only, and throws otherwise
ResizeArgsOk(w, h) == IsNum(w) /\ IsNum(h) /\ w > 0 /\ h > 0

(***************************************************************************)
(* faceLockComposite, lines 213-287.                                       *)
(***************************************************************************)
\* line 219 testing the original image only
UndersizedOrigOnly(origW, origH, genW, genH) ==
    origW < MIN_IMAGE_SIDE \/ origH < MIN_IMAGE_SIDE

\* line 219
Undersized(origW, origH, genW, genH) ==
    \/ origW < MIN_IMAGE_SIDE \/ origH < MIN_IMAGE_SIDE
    \/ genW < MIN_IMAGE_SIDE \/ genH < MIN_IMAGE_SIDE

\* line 213 resolves: lines 214-216; or rejects (the image does not decode)
MetaOrig(r) ==
    /\ rq[r].pc = "meta_orig"
    /\ \/ rq' = [rq EXCEPT ![r] = FaceLockThrows(@)]
       \/ \E m \in inputs.origSizes :
            rq' = [rq EXCEPT ![r] =
                     With(@, [pc |-> "meta_gen", origMeta |-> m,
                              origW |-> Coalesce(m[1], 0), origH |-> Coalesce(m[2], 0),
                              steps |-> Step(@, "metadata_gen")])]
    /\ UNCHANGED <<calc, inputs, modelFiles, retinaSession, nCreated, loadFailed>>

\* line 214 resolves: lines 217-221; or rejects
MetaGen(r) ==
    /\ rq[r].pc = "meta_gen"
    /\ \/ rq' = [rq EXCEPT ![r] = FaceLockThrows(@)]
       \/ \E m \in inputs.genSizes :
            LET genW == Coalesce(m[1], 0)
                genH == Coalesce(m[2], 0)
                rec == With(rq[r], [genMeta |-> m, genW |-> genW, genH |-> genH,
                                    steps |-> Step(rq[r], "size_check")])
            IN  rq' = [rq EXCEPT ![r] =
                         IF Undersized(rec.origW, rec.origH, genW, genH)
                         THEN FaceLockReturns(rec, "generated")
                         ELSE With(rec, [pc |-> "raw_orig", steps |-> Step(rec, "raw_orig")])]
    /\ UNCHANGED <<calc, inputs, modelFiles, retinaSession, nCreated, loadFailed>>

\* lines 221-224 resolve (lines 225-228 start) or reject
RawOrig(r) ==
    /\ rq[r].pc = "raw_orig"
    /\ \/ rq' = [rq EXCEPT ![r] = FaceLockThrows(@)]
       \/ rq' = [rq EXCEPT ![r] = With(@, [pc |-> "raw_gen", steps |-> Step(@, "raw_gen")])]
    /\ UNCHANGED <<calc, inputs, modelFiles, retinaSession, nCreated, loadFailed>>

\* lines 225-228 resolve (line 230: detectFace on the original starts
\* session.run, line 166) or reject
RawGen(r) ==
    /\ rq[r].pc = "raw_gen"
    /\ \/ rq' = [rq EXCEPT ![r] = FaceLockThrows(@)]
       \/ rq' = [rq EXCEPT ![r] = With(@, [pc |-> "det_orig", steps |-> Step(@, "detect_orig")])]
    /\ UNCHANGED <<calc, inputs, modelFiles, retinaSession, nCreated, loadFailed>>

\* line 166 resolves for the original: line 167 decodes boxOrig, line 231
\* starts detectFace on the generated image; or session.run rejects
DetOrig(r) ==
    /\ rq[r].pc = "det_orig"
    /\ \/ rq' = [rq EXCEPT ![r] = FaceLockThrows(@)]
       \/ \E out \in inputs.origOutputs :
            rq' = [rq EXCEPT ![r] =
                     With(@, [pc |-> "det_gen",
                              boxOrig |-> decodeRetinaOutput(out, @.origW, @.origH),
                              steps |-> Step(@, "detect_gen")])]
    /\ UNCHANGED <<calc, inputs, modelFiles, retinaSession, nCreated, loadFailed>>

\* line 232 testing boxOrig only
NoDetectionOrigOnly(boxOrig, boxGen) == boxOrig = NullBox

\* line 232: if (!boxOrig || !boxGen)
NoDetection(boxOrig, boxGen) == boxOrig = NullBox \/ boxGen = NullBox

\* lines 232-245 once both boxes are known

AfterDetection(rec) ==
    IF NoDetection(rec.boxOrig, rec.boxGen)
    THEN FaceLockReturns(rec, "generated")
    ELSE LET expanded == expandBox(rec.boxOrig, rec.origW, rec.origH)
         IN  IF ExtractArgsOk(expanded)
             THEN With(rec, [pc |-> "extract", expanded |-> expanded,
                             steps |-> Step(rec, "extract")])
             ELSE FaceLockThrows(With(rec, [expanded |-> expanded]))

\* a detection step that drops the cached session when a detection misses
DetGenDropsSession(r) ==
    /\ rq[r].pc = "det_gen"
    /\ \E out \in inputs.genOutputs :
         LET rec == AfterDetection(With(rq[r], [boxGen |-> decodeRetinaOutput(out, rq[r].genW, rq[r].genH),
                                                steps |-> Step(rq[r], "box_check")]))
         IN  /\ rq' = [rq EXCEPT ![r] = rec]
             /\ retinaSession' = IF rec.pc = "done" THEN Null ELSE retinaSession
    /\ UNCHANGED <<calc, inputs, modelFiles, nCreated, loadFailed>>

\* line 166 resolves for the generated image: line 167 decodes boxGen, then
\* lines 232-245; or session.run rejects
DetGen(r) ==
    /\ rq[r].pc = "det_gen"
    /\ \/ rq' = [rq EXCEPT ![r] = FaceLockThrows(@)]
       \/ \E out \in inputs.genOutputs :
            rq' = [rq EXCEPT ![r] =
                     AfterDetection(With(@, [boxGen |-> decodeRetinaOutput(out, @.genW, @.genH),
                                             steps |-> Step(@, "box_check")]))]
    /\ UNCHANGED <<calc, inputs, modelFiles, retinaSession, nCreated, loadFailed>>

\* lines 236-245 resolve (lines 247-256 start the resize) or reject
Extract(r) ==
    /\ rq[r].pc = "extract"
    /\ \/ rq' = [rq EXCEPT ![r] = FaceLockThrows(@)]
       \/ /\ ExtractAreaOk(rq[r].expanded, rq[r].origW, rq[r].origH)
          /\ rq' = [rq EXCEPT ![r] =
                      IF ResizeArgsOk(@.boxGen.w, @.boxGen.h)
                      THEN With(@, [pc |-> "resize", steps |-> Step(@, "resize")])
                      ELSE FaceLockThrows(@)]
    /\ UNCHANGED <<calc, inputs, modelFiles, retinaSession, nCreated, loadFailed>>

\* lines 258-259 and 268-269: the size of the mask, of overlayRgba and of the
\* raw overlay image handed to sharp
OverlayW(boxGen) == boxGen.w
OverlayH(boxGen) == boxGen.h

\* lines 247-256 resolve: lines 258-272 build the mask and the overlay and
\* start its PNG encoding; or reject
Resize(r) ==
    /\ rq[r].pc = "resize"
    /\ \/ rq' = [rq EXCEPT ![r] = FaceLockThrows(@)]
       \/ rq' = [rq EXCEPT ![r] =
                   With(@, [pc |-> "overlay_png",
                            overW |-> OverlayW(@.boxGen), overH |-> OverlayH(@.boxGen),
                            steps |-> Step(@, "mask") \o <<"overlay_png">>])]
    /\ UNCHANGED <<calc, inputs, modelFiles, retinaSession, nCreated, loadFailed>>

\* lines 278-279: where the overlay is placed
OverlayLeft(boxGen) == boxGen.x
OverlayTop(boxGen) == boxGen.y

\* lines 268-272 resolve (lines 274-284 start the composite and the PNG
\* encoding of the result) or reject
OverlayPng(r) ==
    /\ rq[r].pc = "overlay_png"
    /\ \/ rq' = [rq EXCEPT ![r] = FaceLockThrows(@)]
       \/ rq' = [rq EXCEPT ![r] =
                   With(@, [pc |-> "composite",
                            left |-> OverlayLeft(@.boxGen), top |-> OverlayTop(@.boxGen),
                            steps |-> Step(@, "composite") \o <<"encode">>])]
    /\ UNCHANGED <<calc, inputs, modelFiles, retinaSession, nCreated, loadFailed>>

\* lines 274-286 resolve: the composited image, which has the size of the
\* image composited onto, is returned; or reject (sharp refuses an overlay
\* larger than the image under it)
Composite(r) ==
    /\ rq[r].pc = "composite"
    /\ \/ rq' = [rq EXCEPT ![r] = FaceLockThrows(@)]
       \/ /\ rq[r].overW <= rq[r].genW /\ rq[r].overH <= rq[r].genH
          /\ rq' = [rq EXCEPT ![r] =
                      FaceLockReturns(With(@, [outW |-> @.genW, outH |-> @.genH]), "composited")]
    /\ UNCHANGED <<calc, inputs, modelFiles, retinaSession, nCreated, loadFailed>>

Next ==
    \E r \in Reqs :
        \/ PostStart(r) \/ PostBody(r) \/ GeminiFetch(r) \/ GeminiRespond(r)
        \/ GsImport(r) \/ GsAccess(r) \/ GsCreate(r)
        \/ MetaOrig(r) \/ MetaGen(r) \/ RawOrig(r) \/ RawGen(r)
        \/ DetOrig(r) \/ DetGen(r)
        \/ Extract(r) \/ Resize(r) \/ OverlayPng(r) \/ Composite(r)

Spec == Init /\ [][Next]_vars

SpecCall == InitCall /\ [][Next]_vars

(***************************************************************************)
(* The pure functions called on their own.  calc holds the arguments of    *)
(* one call; an action applies the function and stores what it returns.    *)
(***************************************************************************)
\* image sizes for decodeRetinaOutput: small ones, and ones at and above the
\* detector size
DecodeSizes == OrigSizes \cup GenSizes \cup {<<640, 480>>, <<768, 1024>>}

\* detector boxes with finite coordinates: inside the detector input, past
\* its edges, and with x2 < x1 or y2 < y1
DecodeBoxes ==
    {<<x1, y1, x2, y2>> : x1 \in {0 - 500, 0, 2000, 6300}, y1 \in {0 - 300, 1000, 5000},
                          x2 \in {100, 2100, 4500, 6900}, y2 \in {900, 3000, 6400}}

\* scores of three detections, in tenths
ScoreTriples == {<<a, b, c>> : a \in {2, 6, 9}, b \in {2, 6, 9}, c \in {1, 5, 9}}

ThreeBoxes == Tensor(<<1, 3, 4>>, FaceSmall \o FaceA \o FaceEdge)
\* one score for each detection
OutOneColumn(sc) == <<ThreeBoxes, Tensor(<<3, 1>>, sc)>>
\* a (background, face) pair of scores for each detection
OutTwoColumn(sc) ==
    <<ThreeBoxes, Tensor(<<3, 2>>, <<10 - sc[1], sc[1], 10 - sc[2], sc[2], 10 - sc[3], sc[3]>>)>>
\* three boxes and no score tensor
OutUnscored == <<ThreeBoxes>>

\* two boxes and no score tensor
OutTwoBoxes == <<Tensor(<<1, 2, 4>>, FaceSmall \o FaceA)>>

DecodeOutputs ==
    {OutNone, OutEmpty, OutUnscored, OutTwoBoxes} \cup {OutSingle(f) : f \in DecodeBoxes}
    \cup {OutOneColumn(sc) : sc \in ScoreTriples} \cup {OutTwoColumn(sc) : sc \in ScoreTriples}

DecodeCalls ==
    {[fn |-> "decodeRetinaOutput", outputs |-> o, imgW |-> sz[1], imgH |-> sz[2],
      decoded |-> FALSE, box |-> NullBox, expandedDone |-> FALSE, expanded |-> NullBox] :
        o \in DecodeOutputs, sz \in DecodeSizes}

\* line 167: decodeRetinaOutput(out, w, h)
CallDecode ==
    /\ calc.fn = "decodeRetinaOutput" /\ ~calc.decoded
    /\ calc' = [calc EXCEPT !.decoded = TRUE,
                            !.box = decodeRetinaOutput(calc.outputs, calc.imgW, calc.imgH)]
    /\ UNCHANGED <<inputs, modelFiles, retinaSession, nCreated, loadFailed, rq>>

\* lines 232-234: expandBox(boxOrig, origW, origH), called for a box that is not null
CallExpand ==
    /\ calc.fn = "decodeRetinaOutput" /\ calc.decoded /\ ~calc.expandedDone
    /\ calc.box # NullBox
    /\ calc' = [calc EXCEPT !.expandedDone = TRUE,
                            !.expanded = expandBox(calc.box, calc.imgW, calc.imgH)]
    /\ UNCHANGED <<inputs, modelFiles, retinaSession, nCreated, loadFailed, rq>>

(***************************************************************************)
(* The letterbox of prepareRetinaInput, lines 82-90, and the way back of   *)
(* decodeRetinaOutput, lines 133-139.  A detector coordinate is kept as a  *)
(* numerator over ScaleDen, an image coordinate as a numerator over 640.   *)
(***************************************************************************)
\* lines 83-84: Math.round(w * scale)
PrepareSize(side, imgW, imgH) ==
    FloorDiv(2 * RETINA_INPUT_SIZE * side + ScaleDen(imgW, imgH), 2 * ScaleDen(imgW, imgH))

\* lines 85-86: Math.floor((size - nw) / 2)
PreparePad(side, imgW, imgH) ==
    FloorDiv(RETINA_INPUT_SIZE - PrepareSize(side, imgW, imgH), 2)

\* lines 89-90 place the image point coord at coord * scale + pad of the input
ForwardNum(coord, pad, den) == coord * RETINA_INPUT_SIZE + pad * den

\* lines 136-139: (b - pad) / scale, for b = fnum / den
BackNum(fnum, pad, den) == fnum - pad * den

\* image sizes below, at and above the detector size
LetterboxSizes ==
    OrigSizes \cup GenSizes \cup {<<500, 333>>, <<640, 480>>, <<682, 1024>>, <<1024, 768>>, <<800, 1080>>}

LetterboxCalls ==
    {[fn |-> "letterbox", srcW |-> sz[1], srcH |-> sz[2], x |-> p[1], y |-> p[2],
      forwardDone |-> FALSE, fx |-> 0, fy |-> 0, backDone |-> FALSE, bx |-> 0, by |-> 0] :
        sz \in LetterboxSizes, p \in {0, 1, 2} \X {0, 1, 2}}

\* the point of the image that a call is about: a corner, the middle, an edge
LetterboxPoint(k, side) == IF k = 0 THEN 0 ELSE IF k = 1 THEN side \div 2 ELSE side - 1

\* the image point mapped into the detector input as prepareRetinaInput lays it out
CallForward ==
    /\ calc.fn = "letterbox" /\ ~calc.forwardDone
    /\ LET den == ScaleDen(calc.srcW, calc.srcH)
       IN  calc' = [calc EXCEPT
                      !.forwardDone = TRUE,
                      !.fx = ForwardNum(LetterboxPoint(calc.x, calc.srcW),
                                        PreparePad(calc.srcW, calc.srcW, calc.srcH), den),
                      !.fy = ForwardNum(LetterboxPoint(calc.y, calc.srcH),
                                        PreparePad(calc.srcH, calc.srcW, calc.srcH), den)]
    /\ UNCHANGED <<inputs, modelFiles, retinaSession, nCreated, loadFailed, rq>>

\* the detector point mapped back as decodeRetinaOutput does
CallBack ==
    /\ calc.fn = "letterbox" /\ calc.forwardDone /\ ~calc.backDone
    /\ LET den == ScaleDen(calc.srcW, calc.srcH)
       IN  calc' = [calc EXCEPT
                      !.backDone = TRUE,
                      !.bx = BackNum(calc.fx, DecodePad(calc.srcW, calc.srcW, calc.srcH), den),
                      !.by = BackNum(calc.fy, DecodePad(calc.srcH, calc.srcW, calc.srcH), den)]
    /\ UNCHANGED <<inputs, modelFiles, retinaSession, nCreated, loadFailed, rq>>

(***************************************************************************)
(* ovalMask called on its own.                                             *)
(***************************************************************************)
\* every small size, and two sizes of face boxes
MaskSizes == ((1..MaxMaskSide) \X (1..MaxMaskSide)) \cup {<<16, 16>>, <<20, 24>>}
\* no feather, feathers below the semi-axes, and the feather of the pipeline
MaskFeathers == {0, 1, 2, OVAL_MASK_FEATHER_PX}

MaskCalls ==
    {[fn |-> "ovalMask", w |-> sz[1], h |-> sz[2], featherPx |-> f,
      maskDone |-> FALSE, buf |-> <<>>] : sz \in MaskSizes, f \in MaskFeathers}

\* line 258: ovalMask(w, h, featherPx)
CallMask ==
    /\ calc.fn = "ovalMask" /\ ~calc.maskDone
    /\ calc' = [calc EXCEPT !.maskDone = TRUE,
                            !.buf = ovalMask(calc.w, calc.h, calc.featherPx)]
    /\ UNCHANGED <<inputs, modelFiles, retinaSession, nCreated, loadFailed, rq>>

FnCalls == DecodeCalls \cup LetterboxCalls \cup MaskCalls

\* no request is served; one function call is under study
InitFn ==
    /\ inputs = PlainInputs
    /\ modelFiles = FileNames
    /\ retinaSession = Null
    /\ nCreated = 0
    /\ loadFailed = FALSE
    /\ rq = [r \in Reqs |-> [IdleReq EXCEPT !.pc = "off"]]
    /\ calc \in FnCalls

NextFn == CallDecode \/ CallExpand \/ CallForward \/ CallBack \/ CallMask

SpecFn == InitFn /\ [][NextFn]_vars

(***************************************************************************)
(* Pixels.  The images of a request are opaque RGB images with a fixed     *)
(* content; channel c is 0, 1 or 2.  The buffers of faceLockComposite are  *)
(* given by their contents, computed from the locals of the request.       *)
(***************************************************************************)
OrigPixel(x, y, c) == (17 * x + 31 * y + 60 * c + 5) % 256
GenPixel(x, y, c) == (7 * x + 3 * y + 90 * c + 200) % 256

\* lines 236-245: origPatch is the original image cut to `expanded`
PatchPixel(expanded, i, j, c) == OrigPixel(expanded.x + i, expanded.y + j, c)

\* lines 247-256: the patch resampled to w x h, fit "fill" (each axis scaled
\* on its own); the resampling kernel is taken to be nearest neighbour
ResizedPixel(expanded, w, h, i, j, c) ==
    PatchPixel(expanded, (i * expanded.w) \div w, (j * expanded.h) \div h, c)

\* line 265 writing an opaque overlay
OverlayAlphaOpaque(maskValue) == 255

\* lines 261 and 265: Math.round(255 * (maskBuf[i] / 255))
OverlayAlpha(maskValue) == maskValue

\* lines 258-266: overlayRgba[i * 4 + c], c = 3 being the alpha channel
OverlayRgba(rec, i, c) ==
    LET w == rec.boxGen.w
        h == rec.boxGen.h
    IN  IF c < 3
        THEN ResizedPixel(rec.expanded, w, h, i % w, i \div w, c)
        ELSE OverlayAlpha(ovalMaskAt(w, h, OVAL_MASK_FEATHER_PX, i % w, i \div w))

\* blend "source": the overlay pixel replaces the pixel under it
BlendSource(src, a, dst) == src

\* blend "over" onto an opaque pixel: (src * a + dst * (255 - a)) / 255, rounded
BlendOver(src, a, dst) == (src * a + dst * (255 - a) + 127) \div 255

\* lines 268-284: channel c of the pixel (x, y) of the composited image; the
\* overlay is read as rows of overW pixels and placed at (left, top)
OutPixel(rec, x, y, c) ==
    LET i == x - rec.left
        j == y - rec.top
    IN  IF i >= 0 /\ i < rec.overW /\ j >= 0 /\ j < rec.overH
        THEN BlendOver(OverlayRgba(rec, j * rec.overW + i, c),
                       OverlayRgba(rec, j * rec.overW + i, 3), GenPixel(x, y, c))
        ELSE GenPixel(x, y, c)

(***************************************************************************)
(* Properties.                                                             *)
(***************************************************************************)
Called(r, step) == \E i \in 1..Len(rq[r].steps) : rq[r].steps[i] = step

DecodeSteps == {"metadata_orig", "metadata_gen", "raw_orig", "raw_gen"}
DetectSteps == {"detect_orig", "detect_gen"}
CompositeSteps == {"extract", "resize", "mask", "overlay_png", "composite", "encode"}

NoneCalled(r, S) == \A st \in S : ~Called(r, st)

PassedThrough(r) == rq[r].fl = "returned" /\ rq[r].flValue = "generated"

\* C1: whenever getRetinaSession yields no session, faceLockComposite
\* returns the generated image it was given, and neither decodes an image
\* nor runs a detection.
C1_PassthroughNoSession ==
    \A r \in Reqs :
        rq[r].gs = "failed" =>
            /\ PassedThrough(r)
            /\ rq[r].session = Null
            /\ NoneCalled(r, DecodeSteps \cup DetectSteps \cup CompositeSteps)

\* a call that got no session because the model failed to load
C1_Witness ==
    \E r \in Reqs :
        /\ rq[r].gs = "failed" /\ rq[r].pc = "done"
        /\ Called(r, "InferenceSession.create")

\* C2: faceLockComposite never raises: whatever fails inside it, the call
\* completes normally.
C2_NeverRaises == \A r \in Reqs : rq[r].fl # "threw"

\* C3: once the generative service has returned an image, the handler
\* answers with success, its b64 the composited image or the generated one,
\* whatever the outcome of the face-lock step.
C3_FaceLockNeverFailsResponse ==
    \A r \in Reqs :
        rq[r].fl # "none" =>
            /\ rq[r].status \in {0, 200}
            /\ rq[r].pc = "done" =>
                 /\ rq[r].status = 200
                 /\ rq[r].b64 \in {"generated", "composited"}
                 /\ rq[r].b64 = "composited" => rq[r].flValue = "composited"
                 /\ rq[r].fl = "returned" => rq[r].b64 = rq[r].flValue

\* faceLockComposite threw after the detections, and the response is the generated image
C3_Witness ==
    \E r \in Reqs :
        /\ rq[r].fl = "threw" /\ Called(r, "detect_gen")
        /\ rq[r].status = 200 /\ rq[r].b64 = "generated"

\* C4: if the detection yields no box for the original or for the generated
\* image, faceLockComposite returns the generated image and runs no
\* extract, resize, mask or composite step.
C4_PassthroughNoDetection ==
    \A r \in Reqs :
        (Called(r, "box_check") /\ (rq[r].boxOrig = NullBox \/ rq[r].boxGen = NullBox)) =>
            /\ PassedThrough(r)
            /\ NoneCalled(r, CompositeSteps)

\* a box for the original and none for the generated image
C4_Witness ==
    \E r \in Reqs :
        /\ Called(r, "box_check") /\ rq[r].pc = "done"
        /\ rq[r].boxOrig # NullBox /\ rq[r].boxGen = NullBox

\* a dimension as line 219 reads it: missing counts as 0
DimBelow(v, n) == v = Undefined \/ v < n

\* C5: if a side of the original or of the generated image is below 32
\* pixels (missing counts as 0), faceLockComposite returns the generated
\* image and runs no detection.
C5_PassthroughUndersized ==
    \A r \in Reqs :
        (/\ Called(r, "size_check")
         /\ \E v \in {rq[r].origMeta[1], rq[r].origMeta[2], rq[r].genMeta[1], rq[r].genMeta[2]} :
               DimBelow(v, 32)) =>
            /\ PassedThrough(r)
            /\ NoneCalled(r, DetectSteps \cup CompositeSteps)

\* only the generated image is undersized, by one pixel
C5_Witness ==
    \E r \in Reqs :
        /\ Called(r, "size_check") /\ rq[r].pc = "done"
        /\ rq[r].origMeta[1] >= 32 /\ rq[r].origMeta[2] >= 32
        /\ rq[r].genMeta[1] = 31 /\ rq[r].genMeta[2] >= 32

\* C6: after one getRetinaSession call has failed to load the model, every
\* later call returns null without a file access or a model load.
C6_NegativeCaching ==
    \A r \in Reqs :
        rq[r].afterFail =>
            /\ ~Called(r, "fs.access") /\ ~Called(r, "InferenceSession.create")
            /\ rq[r].gs \in {"none", "running", "failed"}

\* C7: concurrent first loads never leave two sessions of which the cache
\* holds one: all callers receive the same session.
C7_CoalescedLoads ==
    /\ nCreated <= 1
    /\ \A r1, r2 \in Reqs :
         (rq[r1].session # Null /\ rq[r2].session # Null) => rq[r1].session = rq[r2].session

\* C8: once retinaSession is non-null it is never replaced nor reset, and a
\* getRetinaSession call that starts afterwards returns that session
\* without loading the model.
C8_CreatedOnce ==
    [][/\ retinaSession # Null => retinaSession' = retinaSession
       /\ \A r \in Reqs :
            rq'[r].afterCached # Null =>
                /\ rq'[r].session = rq'[r].afterCached
                /\ rq'[r].session = retinaSession'
                /\ rq'[r].gs = "cached"]_vars

Composited(r) == rq[r].fl = "returned" /\ rq[r].flValue = "composited"

\* C9: when both detections succeed, the returned image has the width and
\* height of the generated image, and the overlay, placed at boxGen's
\* top-left with boxGen's size, lies inside the generated canvas.
C9_CompositedDimensions ==
    \A r \in Reqs :
        /\ Composited(r) => (rq[r].outW = rq[r].genW /\ rq[r].outH = rq[r].genH)
        /\ (rq[r].pc = "composite" \/ Composited(r)) =>
             /\ rq[r].left = rq[r].boxGen.x /\ rq[r].top = rq[r].boxGen.y
             /\ rq[r].overW = rq[r].boxGen.w /\ rq[r].overH = rq[r].boxGen.h
             /\ rq[r].left >= 0 /\ rq[r].top >= 0
             /\ rq[r].left + rq[r].overW <= rq[r].genW
             /\ rq[r].top + rq[r].overH <= rq[r].genH

\* a composited image whose generated face box was cut at the right edge
C9_Witness ==
    \E r \in Reqs :
        /\ Composited(r)
        /\ rq[r].boxGen.x + rq[r].boxGen.w = rq[r].genW
        /\ rq[r].boxGen.x > 0

InBox(b, x, y) == x >= b.x /\ x < b.x + b.w /\ y >= b.y /\ y < b.y + b.h

\* C10: on the success path every pixel of the output outside boxGen's
\* footprint, and every pixel inside it where the mask is 0, equals the
\* pixel of the generated image at the same place.
C10_OutsideUntouched ==
    \A r \in Reqs :
        Composited(r) =>
            \A x \in 0..(rq[r].outW - 1), y \in 0..(rq[r].outH - 1) :
                (\/ ~InBox(rq[r].boxGen, x, y)
                 \/ ovalMaskAt(rq[r].boxGen.w, rq[r].boxGen.h, OVAL_MASK_FEATHER_PX,
                               x - rq[r].boxGen.x, y - rq[r].boxGen.y) = 0)
                => \A c \in 0..2 : OutPixel(rq[r], x, y, c) = GenPixel(x, y, c)

\* a composited image with a pixel that the overlay changed
C10_Witness ==
    \E r \in Reqs :
        /\ Composited(r)
        /\ \E x \in 0..(rq[r].outW - 1), y \in 0..(rq[r].outH - 1), c \in 0..2 :
              OutPixel(rq[r], x, y, c) # GenPixel(x, y, c)

\* C11: whenever both detections succeed, the mask is fully opaque at the
\* exact center of boxGen, so the output pixel there is the pixel of the
\* original face patch resampled to boxGen's size.
C11_CenterIsPatch ==
    \A r \in Reqs :
        Composited(r) =>
            LET b == rq[r].boxGen
                cx == b.w \div 2
                cy == b.h \div 2
            IN  /\ ovalMaskAt(b.w, b.h, OVAL_MASK_FEATHER_PX, cx, cy) = 255
                /\ \A c \in 0..2 :
                     OutPixel(rq[r], b.x + cx, b.y + cy, c)
                         = ResizedPixel(rq[r].expanded, b.w, b.h, cx, cy, c)

BoxCalled == calc.fn = "decodeRetinaOutput" /\ calc.decoded
ExpandCalled == calc.fn = "decodeRetinaOutput" /\ calc.expandedDone

\* the BoundingBox invariant for an image of size imgW x imgH
ValidBox(b, imgW, imgH) ==
    /\ IsNum(b.x) /\ IsNum(b.y) /\ IsNum(b.w) /\ IsNum(b.h)
    /\ b.x >= 0 /\ b.y >= 0 /\ b.w >= 1 /\ b.h >= 1
    /\ b.x + b.w <= imgW /\ b.y + b.h <= imgH

\* C12: every box returned by decodeRetinaOutput, and every box expandBox
\* returns from it, satisfies x >= 0, y >= 0, w >= 1, h >= 1, x + w <= imgW
\* and y + h <= imgH; a decoded box has w >= 16 and h >= 16.
C12_BoundingBox ==
    /\ (BoxCalled /\ calc.box # NullBox) =>
          /\ ValidBox(calc.box, calc.imgW, calc.imgH)
          /\ calc.box.w >= 16 /\ calc.box.h >= 16
    /\ ExpandCalled => ValidBox(calc.expanded, calc.imgW, calc.imgH)

Within(num, coord, tolerance) ==
    /\ num - RETINA_INPUT_SIZE * coord <= RETINA_INPUT_SIZE * tolerance
    /\ RETINA_INPUT_SIZE * coord - num <= RETINA_INPUT_SIZE * tolerance

\* C13: a point of the source image mapped into detector space as
\* prepareRetinaInput lays the image out, and back as decodeRetinaOutput
\* maps a box, comes back within 1 pixel of itself on each axis.
C13_LetterboxRoundTrip ==
    (calc.fn = "letterbox" /\ calc.backDone) =>
        /\ Within(calc.bx, LetterboxPoint(calc.x, calc.srcW), 1)
        /\ Within(calc.by, LetterboxPoint(calc.y, calc.srcH), 1)

MaskCalled == calc.fn = "ovalMask" /\ calc.maskDone
\* the value of the computed mask at pixel (x, y)
MaskPixel(x, y) == calc.buf[y * calc.w + x]

\* C14: ovalMask(w, h, featherPx) is 255 at the center pixel (w/2, h/2),
\* for any w, h and featherPx.
C14_MaskCenter == MaskCalled => MaskPixel(calc.w \div 2, calc.h \div 2) = 255

\* C15 as stated: ovalMask is 0 at all four corner pixels for any w >= 1,
\* h >= 1 and featherPx.
C15_MaskCornersAnySize ==
    MaskCalled =>
        /\ MaskPixel(0, 0) = 0 /\ MaskPixel(calc.w - 1, 0) = 0
        /\ MaskPixel(0, calc.h - 1) = 0 /\ MaskPixel(calc.w - 1, calc.h - 1) = 0

\* C15: ovalMask is 0 at the corner pixels (0, 0), (w-1, 0) and (0, h-1) for
\* any w >= 1, h >= 1 and featherPx, and at (w-1, h-1) when w >= 6 and h >= 6.
C15_MaskCorners ==
    MaskCalled =>
        /\ MaskPixel(0, 0) = 0 /\ MaskPixel(calc.w - 1, 0) = 0
        /\ MaskPixel(0, calc.h - 1) = 0
        /\ (calc.w >= 6 /\ calc.h >= 6) => MaskPixel(calc.w - 1, calc.h - 1) = 0

\* a mask of a face box, opaque at its center, with its four corners
C15_Witness ==
    /\ MaskCalled /\ calc.w >= 6 /\ calc.h >= 6 /\ calc.w # calc.h
    /\ MaskPixel(calc.w \div 2, calc.h \div 2) = 255

\* the square of the normalized elliptical distance of pixel (x, y) from the
\* center, ((x - w/2) / (0.85 w/2))^2 + ((y - h/2) / (0.9 h/2))^2, times (153 w h)^2 / 100
EllipseDist2(w, h, x, y) ==
    (18 * h * (2 * x - w)) * (18 * h * (2 * x - w)) + (17 * w * (2 * y - h)) * (17 * w * (2 * y - h))

\* C16: for featherPx >= 0 and any two pixels whose normalized elliptical
\* distances satisfy d1 <= d2, mask(pixel1) >= mask(pixel2); so the mask is
\* non-increasing along any ray from the center.
C16_MaskMonotone ==
    MaskCalled =>
        \A x1, x2 \in 0..(calc.w - 1), y1, y2 \in 0..(calc.h - 1) :
            EllipseDist2(calc.w, calc.h, x1, y1) <= EllipseDist2(calc.w, calc.h, x2, y2)
                => MaskPixel(x1, y1) >= MaskPixel(x2, y2)

\* a mask with an opaque pixel, a feathered pixel and a transparent pixel
C16_Witness ==
    /\ MaskCalled /\ calc.w # calc.h
    /\ \E i, j, k \in DOMAIN calc.buf :
          calc.buf[i] = 255 /\ calc.buf[j] > 0 /\ calc.buf[j] < 255 /\ calc.buf[k] = 0

\* the call of request r ended on a detection miss
Missed(rec) ==
    /\ rec.pc = "done" /\ rec.fl = "returned"
    /\ rec.steps # <<>> /\ rec.steps[Len(rec.steps)] = "box_check"

\* C17: a call in which a detection misses returns the generated image, as
\* every other such call does, and leaves nothing behind: the step that
\* ends it changes neither the cached session nor any other request.
C17_MissIsPure ==
    [][\A r \in Reqs :
          (~Missed(rq[r]) /\ Missed(rq'[r])) =>
              /\ rq'[r].flValue = "generated" /\ rq'[r].b64 = "generated"
              /\ \A q \in Reqs : Missed(rq[q]) => rq'[r].b64 = rq[q].b64
              /\ retinaSession' = retinaSession /\ nCreated' = nCreated
              /\ loadFailed' = loadFailed /\ modelFiles' = modelFiles
              /\ \A q \in Reqs \ {r} : rq'[q] = rq[q]]_vars

\* two calls that both ended on a detection miss, the session still cached
C17_Witness ==
    /\ \A r \in Reqs : Missed(rq[r])
    /\ retinaSession # Null

\* C18: if either model file (retinaface.onnx or 2d106det.onnx) is missing,
\* faceLockComposite gets no session and returns the generated image; face
\* lock runs only when both files are present.
C18_BothModelFiles ==
    \A r \in Reqs :
        (modelFiles # FileNames /\ rq[r].fl # "none") =>
            /\ rq[r].session = Null
            /\ NoneCalled(r, DecodeSteps \cup DetectSteps \cup CompositeSteps)
            /\ rq[r].pc = "done" => PassedThrough(r)

\* a call of decodeRetinaOutput whose outputs hold a score tensor next to
\* the box tensor
ScoredCall == BoxCalled /\ Len(calc.outputs) = 2
\* the face confidence of detection i (from 0), in tenths: the score of a
\* one-column tensor, the second score of a (background, face) pair
FaceConfidence(t, i) == IF t.dims[2] = 2 THEN t.data[2 * i + 2] ELSE t.data[i + 1]
\* the outputs of a detector that reports detection i of the box tensor t alone
OnlyDetection(t, i) == OutSingle(SubSeq(t.data, 4 * i + 1, 4 * i + 4))
NumDetections(t) == Len(t.data) \div 4

\* C19: when a score tensor is present and no detection has a confidence
\* above 0.5, decodeRetinaOutput returns null.
C19_ConfidenceFloor ==
    (/\ ScoredCall
     /\ \A i \in 0..(NumDetections(calc.outputs[1]) - 1) :
           FaceConfidence(calc.outputs[2], i) <= 5)
    => calc.box = NullBox

\* C20: when a score tensor is present, the decoded box is that of the
\* detection whose face confidence is maximal; without a score tensor it is
\* that of the first detection.
C20_HighestConfidence ==
    /\ ScoredCall =>
         \A k \in 0..(NumDetections(calc.outputs[1]) - 1) :
             (\A i \in 0..(NumDetections(calc.outputs[1]) - 1) :
                 i # k => FaceConfidence(calc.outputs[2], i) < FaceConfidence(calc.outputs[2], k))
             => calc.box = decodeRetinaOutput(OnlyDetection(calc.outputs[1], k), calc.imgW, calc.imgH)
    /\ (BoxCalled /\ calc.outputs = OutUnscored) =>
         calc.box = decodeRetinaOutput(OnlyDetection(calc.outputs[1], 0), calc.imgW, calc.imgH)

\* the footprint of the overlay on the generated image
OverlayBox(rec) == [x |-> rec.left, y |-> rec.top, w |-> rec.overW, h |-> rec.overH]

\* C21: the face box used for each image is the detector's box expanded by
\* 15% on each side and clamped to the image: the patch is cut from the
\* original at expandBox(boxOrig) and placed on the generated image at
\* expandBox(boxGen).
C21_BothBoxesExpanded ==
    \A r \in Reqs :
        (rq[r].pc = "composite" \/ Composited(r)) =>
            /\ rq[r].expanded = expandBox(rq[r].boxOrig, rq[r].origW, rq[r].origH)
            /\ OverlayBox(rq[r]) = expandBox(rq[r].boxGen, rq[r].genW, rq[r].genH)

\* C22: for every image size, the padding offsets (padLeft, padTop) that
\* prepareRetinaInput uses to build the detector input equal those that
\* decodeRetinaOutput uses to map the box back; both use the same scale.
C22_SameLetterbox ==
    (calc.fn = "letterbox" /\ calc.backDone) =>
        /\ PreparePad(calc.srcW, calc.srcW, calc.srcH) = DecodePad(calc.srcW, calc.srcW, calc.srcH)
        /\ PreparePad(calc.srcH, calc.srcW, calc.srcH) = DecodePad(calc.srcH, calc.srcW, calc.srcH)

\* the step that the call of request r was waiting for when it ended
LastStep(rec) == IF rec.steps = <<>> THEN "none" ELSE rec.steps[Len(rec.steps)]

\* C23: a detection call never raises: when the inference run fails (or
\* the outputs are unusable) detectFace completes with null, so no call of
\* faceLockComposite ends by an exception out of a detection.
C23_DetectionNeverThrows ==
    \A r \in Reqs : ~(rq[r].fl = "threw" /\ LastStep(rq[r]) \in DetectSteps)

\* the corner k (0 = x1, 1 = y1, 2 = x2, 3 = y2) of the winning detection of
\* a call of decodeRetinaOutput mapped to image space, as a numerator over
\* 10 * RETINA_INPUT_SIZE
MappedCorner(c, k) ==
    LET boxes == c.outputs[BoxTensorIdx(c.outputs)].data
        pad == IF k \in {0, 2} THEN DecodePad(c.imgW, c.imgW, c.imgH)
                               ELSE DecodePad(c.imgH, c.imgW, c.imgH)
    IN  MapNum(ToNumber(ReadAt(boxes, BestIdx(c.outputs) * 4 + k)), pad,
               ScaleDen(c.imgW, c.imgH))

\* C24: a box returned by decodeRetinaOutput does not extend past the
\* mapped right and bottom edges of the detector's box: x + w <= ceil(x2)
\* and y + h <= ceil(y2), also when the mapped box starts left of or above
\* the image (x1 < 0 or y1 < 0) and x, y are clamped to 0.
C24_ClampedToMappedBox ==
    (BoxCalled /\ calc.box # NullBox /\ IsNum(calc.box.x) /\ IsNum(calc.box.y)) =>
        /\ calc.box.x + calc.box.w <= CeilDiv(MappedCorner(calc, 2), 10 * RETINA_INPUT_SIZE)
        /\ calc.box.y + calc.box.h <= CeilDiv(MappedCorner(calc, 3), 10 * RETINA_INPUT_SIZE)

\* |255 * out - (src * a + dst * (255 - a))| <= 127: out is the over blend
\* of src onto dst with alpha a / 255, rounded to an integer
IsOverBlend(out, src, a, dst) ==
    LET exact == src * a + dst * (255 - a)
    IN  255 * out - exact <= 127 /\ exact - 255 * out <= 127

StepRank ==
    [s \in {"getRetinaSession", "fs.access", "InferenceSession.create"} |-> 1]
    @@ [s \in {"metadata_orig"} |-> 2] @@ [s \in {"metadata_gen"} |-> 3]
    @@ [s \in {"size_check"} |-> 4] @@ [s \in {"raw_orig"} |-> 5]
    @@ [s \in {"raw_gen"} |-> 6] @@ [s \in {"detect_orig"} |-> 7]
    @@ [s \in {"detect_gen"} |-> 8] @@ [s \in {"box_check"} |-> 9]
    @@ [s \in {"extract"} |-> 10] @@ [s \in {"resize"} |-> 11]
    @@ [s \in {"mask"} |-> 12] @@ [s \in {"overlay_png"} |-> 13]
    @@ [s \in {"composite"} |-> 14] @@ [s \in {"encode"} |-> 15]

\* the steps of request r so far are in the order of StepRank; only the
\* steps of the session acquisition share a rank
StepsInOrder(r) ==
    \A i, j \in 1..Len(rq[r].steps) :
        i < j =>
            \/ StepRank[rq[r].steps[i]] < StepRank[rq[r].steps[j]]
            \/ /\ StepRank[rq[r].steps[j]] = 1
               /\ rq[r].steps[i] # rq[r].steps[j]

\* C26: in every execution the steps of faceLockComposite occur in the
\* order session acquisition, size check and decode, detection on the
\* original, detection on the generated image, extract, resize, mask,
\* composite, encode, each at most once; after the first failing step no
\* later step runs (no detection on the generated image after a miss on
\* the original) and the call returns the generated image.
C26_ShortCircuitOrder ==
    \A r \in Reqs :
        /\ StepsInOrder(r)
        /\ Called(r, "detect_gen") => rq[r].boxOrig # NullBox
        /\ rq[r].pc = "done" => (PassedThrough(r) \/ Composited(r))

\* C27: decodeRetinaOutput never takes one output tensor both as the box
\* tensor and as the score tensor, so no box coordinate is read as a score;
\* when the outputs hold a box tensor only, there are no scores and the
\* first detection is the one decoded.
C27_DistinctTensors ==
    (BoxCalled /\ BoxTensorIdx(calc.outputs) # 0) =>
        /\ ScoreTensorIdx(calc.outputs) # BoxTensorIdx(calc.outputs)
        /\ Len(calc.outputs) = 1 => BestIdx(calc.outputs) = 0

(***************************************************************************)
(* transform/route.ts: pollUntilCompleted, lines 45-66.  calc holds the    *)
(* locals of one call and what it has seen: the number of status requests  *)
(* sent, of responses received, of responses that made it wait, and the    *)
(* last response.                                                          *)
(***************************************************************************)
\* line 48: maxAttempts = 60, the value POST (line 147) calls it with
DefaultMaxAttempts == 60
\* the other values of maxAttempts are 0..MaxAttempts
MaxAttempts == 3

\* statusData.status: "none" is a body without a status
StatusValues == {"COMPLETED", "FAILED", "IN_PROGRESS", "IN_QUEUE", "none"}

PollCalls ==
    {[fn |-> "pollUntilCompleted", maxAttempts |-> m, i |-> 0, pc |-> "call",
      requests |-> 0, responses |-> 0, waited |-> 0, last |-> "none", error |-> "none"] :
        m \in (0..MaxAttempts) \cup {DefaultMaxAttempts}}

\* a loop that makes one attempt too many
LoopTestInclusive(i, maxAttempts) == i <= maxAttempts

\* line 51: i < maxAttempts
LoopTest(i, maxAttempts) == i < maxAttempts

PollThrows(c, err) == With(c, [pc |-> "threw", error |-> err])

\* lines 51-54 and 65: the loop test; the status request is sent, or the
\* loop is left and the timeout is thrown
PollLoop(c) ==
    IF LoopTest(c.i, c.maxAttempts)
    THEN With(c, [pc |-> "fetch", requests |-> c.requests + 1])
    ELSE PollThrows(c, "Fal queue timeout")

\* line 51, entered with i = 0
PollCall ==
    /\ calc.fn = "pollUntilCompleted" /\ calc.pc = "call"
    /\ calc' = PollLoop(calc)
    /\ UNCHANGED <<inputs, modelFiles, retinaSession, nCreated, loadFailed, rq>>

\* the fetch of line 52 settles: it rejects, or a response arrives and
\* lines 55-58 run
PollFetchDone ==
    /\ calc.fn = "pollUntilCompleted" /\ calc.pc = "fetch"
    /\ \/ calc' = PollThrows(With(calc, [last |-> "rejected"]), "fetch failed")
       \/ calc' = PollThrows(With(calc, [last |-> "not_ok", responses |-> calc.responses + 1]),
                             "Status check failed")
       \/ calc' = With(calc, [pc |-> "json", last |-> "ok", responses |-> calc.responses + 1])
    /\ UNCHANGED <<inputs, modelFiles, retinaSession, nCreated, loadFailed, rq>>

\* statusRes.json() of line 58 settles: the body does not parse, or lines
\* 59-63 run on its status
PollJsonDone ==
    /\ calc.fn = "pollUntilCompleted" /\ calc.pc = "json"
    /\ \/ calc' = PollThrows(With(calc, [last |-> "bad_body"]), "json failed")
       \/ \E s \in StatusValues :
            calc' = IF s = "COMPLETED" THEN With(calc, [pc |-> "returned", last |-> s])
                    ELSE IF s = "FAILED"
                         THEN PollThrows(With(calc, [last |-> s]), "Fal queue job failed")
                         ELSE With(calc, [pc |-> "sleep", last |-> s,
                                          waited |-> calc.waited + 1])
    /\ UNCHANGED <<inputs, modelFiles, retinaSession, nCreated, loadFailed, rq>>

\* the timer of line 63 fires: i++ and the loop test
PollTimer ==
    /\ calc.fn = "pollUntilCompleted" /\ calc.pc = "sleep"
    /\ calc' = PollLoop(With(calc, [i |-> calc.i + 1]))
    /\ UNCHANGED <<inputs, modelFiles, retinaSession, nCreated, loadFailed, rq>>

InitPoll ==
    /\ inputs = PlainInputs
    /\ modelFiles = FileNames
    /\ retinaSession = Null
    /\ nCreated = 0
    /\ loadFailed = FALSE
    /\ rq = [r \in Reqs |-> [IdleReq EXCEPT !.pc = "off"]]
    /\ calc \in PollCalls

NextPoll == PollCall \/ PollFetchDone \/ PollJsonDone \/ PollTimer

\* every status request is answered (or fails) and every timer fires
SpecPoll == InitPoll /\ [][NextPoll]_vars /\ WF_vars(NextPoll)

PollDone == calc.fn = "pollUntilCompleted" /\ calc.pc \in {"returned", "threw"}

PollSafe ==
    calc.fn = "pollUntilCompleted" =>
        /\ calc.requests <= calc.maxAttempts
        /\ calc.pc = "returned" => calc.last = "COMPLETED"
        /\ calc.last = "not_ok" => (calc.pc = "threw" /\ calc.error = "Status check failed")
        /\ calc.last = "FAILED" => (calc.pc = "threw" /\ calc.error = "Fal queue job failed")
        /\ (PollDone /\ calc.last # "rejected") => calc.responses = calc.requests
        /\ (calc.pc = "threw" /\ calc.error = "Fal queue timeout") <=>
              (calc.waited = calc.maxAttempts /\ calc.responses = calc.maxAttempts
                  /\ calc.pc \notin {"call", "sleep"})

\* C28: pollUntilCompleted sends at most maxAttempts status requests and
\* always ends: it returns only after a response with status COMPLETED, it
\* throws at the first response that is not ok or has status FAILED without
\* sending another request, and it throws the timeout exactly when
\* maxAttempts responses were neither COMPLETED nor FAILED.
C28_PollTerminates == [](PollSafe) /\ <>(PollDone)

\* the call POST makes timed out after 60 responses
C28_Witness ==
    /\ calc.fn = "pollUntilCompleted" /\ calc.maxAttempts = DefaultMaxAttempts
    /\ calc.pc = "threw" /\ calc.error = "Fal queue timeout"
    /\ calc.requests = DefaultMaxAttempts

(***************************************************************************)
(* generate-plan/route.ts: repairWeekSessions, lines 283-340, and the      *)
(* check POST makes after it, lines 396-431.  A string is the sequence of  *)
(* its characters.  A session is a record; a session of the model's        *)
(* answer may lack the field day, and lacks the field exercises when that  *)
(* is not an array.  The focus of a session is not modelled.               *)
(***************************************************************************)
\* the longest list of raw sessions in a week
MaxSessions == 3

\* lines 6-14
Weekday ==
    [Monday |-> <<"M", "o", "n", "d", "a", "y">>,
     Tuesday |-> <<"T", "u", "e", "s", "d", "a", "y">>,
     Wednesday |-> <<"W", "e", "d", "n", "e", "s", "d", "a", "y">>,
     Thursday |-> <<"T", "h", "u", "r", "s", "d", "a", "y">>,
     Friday |-> <<"F", "r", "i", "d", "a", "y">>,
     Saturday |-> <<"S", "a", "t", "u", "r", "d", "a", "y">>,
     Sunday |-> <<"S", "u", "n", "d", "a", "y">>]

\* lines 48-56
DEFAULT_ORDER ==
    <<Weekday.Monday, Weekday.Tuesday, Weekday.Wednesday, Weekday.Thursday,
      Weekday.Friday, Weekday.Saturday, Weekday.Sunday>>

\* String.prototype.toLowerCase, on one character
ToLowerChar(c) ==
    LET upper == <<"A", "B", "C", "D", "E", "F", "G", "H", "I", "J", "K", "L", "M", "N", "O", "P", "Q", "R", "S", "T", "U", "V", "W", "X", "Y", "Z">>
        lower == <<"a", "b", "c", "d", "e", "f", "g", "h", "i", "j", "k", "l", "m", "n", "o", "p", "q", "r", "s", "t", "u", "v", "w", "x", "y", "z">>
    IN  IF \E i \in 1..Len(upper) : upper[i] = c
        THEN lower[CHOOSE i \in 1..Len(upper) : upper[i] = c]
        ELSE c

toLowerCase(s) == [i \in 1..Len(s) |-> ToLowerChar(s[i])]

\* String.prototype.trim
RECURSIVE trim(_)
trim(s) ==
    IF s = <<>> THEN s
    ELSE IF Head(s) = " " THEN trim(Tail(s))
    ELSE IF s[Len(s)] = " " THEN trim(SubSeq(s, 1, Len(s) - 1))
    ELSE s

\* lines 228-230 on the field f of a session: String(s?.f ?? "").trim()
safeStr(s, f) == IF f \in DOMAIN s THEN trim(s[f]) ELSE <<>>

\* lines 268-276
ShortForms ==
    [s \in {<<"m", "o", "n">>, <<"t", "u", "e">>, <<"w", "e", "d">>, <<"t", "h", "u">>, <<"f", "r", "i">>, <<"s", "a", "t">>, <<"s", "u", "n">>} |->
        IF s = <<"m", "o", "n">> THEN Weekday.Monday
        ELSE IF s = <<"t", "u", "e">> THEN Weekday.Tuesday
        ELSE IF s = <<"w", "e", "d">> THEN Weekday.Wednesday
        ELSE IF s = <<"t", "h", "u">> THEN Weekday.Thursday
        ELSE IF s = <<"f", "r", "i">> THEN Weekday.Friday
        ELSE IF s = <<"s", "a", "t">> THEN Weekday.Saturday
        ELSE Weekday.Sunday]

\* the value null of coerceToTrainingDay; its caller tests !fixedDay (line 301)
NoDay == <<>>

\* lines 254-281
coerceToTrainingDay(s, trainingDays) ==
    LET d == safeStr(s, "day")
        includes(x) == \E i \in 1..Len(trainingDays) : trainingDays[i] = x
        lower == toLowerCase(d)
        ci == {i \in 1..Len(trainingDays) : toLowerCase(trainingDays[i]) = lower}
        short == SubSeq(lower, 1, MathMin(3, Len(lower)))
    IN  IF d = <<>> THEN NoDay
        ELSE IF includes(d) THEN d
        ELSE IF ci # {} THEN trainingDays[CHOOSE i \in ci : \A j \in ci : i <= j]
        ELSE IF short \in DOMAIN ShortForms /\ includes(ShortForms[short])
             THEN ShortForms[short]
        ELSE NoDay

\* lines 232-244: four exercises
makeFallbackExercises == <<"Incline Dumbbell Press", "Lat Pulldown", "Leg Press", "Plank">>

\* lines 246-252
makeFallbackSession(day) == [day |-> day, exercises |-> makeFallbackExercises]

\* lines 294-310: the sessions that can be placed on a training day
RECURSIVE Normalized(_, _)
Normalized(rawSessions, trainingDays) ==
    IF rawSessions = <<>> THEN <<>>
    ELSE LET s == Head(rawSessions)
             fixedDay == coerceToTrainingDay(s, trainingDays)
             exercises == IF "exercises" \in DOMAIN s THEN s.exercises ELSE <<>>
             rest == Normalized(Tail(rawSessions), trainingDays)
         IN  IF fixedDay = NoDay THEN rest
             ELSE <<[day |-> fixedDay,
                     exercises |-> IF Len(exercises) >= 1 THEN exercises
                                   ELSE makeFallbackExercises]>> \o rest

\* lines 312-320 without the test seen.has(d)
RECURSIVE KeepAllDays(_, _)
KeepAllDays(normalized, seen) ==
    IF normalized = <<>> THEN <<>>
    ELSE <<Head(normalized)>> \o KeepAllDays(Tail(normalized), seen)

\* lines 312-320: the first session of each day
RECURSIVE UniqueByDay(_, _)
UniqueByDay(normalized, seen) ==
    IF normalized = <<>> THEN <<>>
    ELSE LET d == trim(Head(normalized).day)
         IN  IF d = <<>> \/ d \in seen THEN UniqueByDay(Tail(normalized), seen)
             ELSE <<Head(normalized)>> \o UniqueByDay(Tail(normalized), seen \cup {d})

\* trainingDays.indexOf(day), counted from 1; 0 when absent
IndexOfDay(trainingDays, day) ==
    LET S == {i \in 1..Len(trainingDays) : trainingDays[i] = day}
    IN  IF S = {} THEN 0 ELSE CHOOSE i \in S : \A j \in S : i <= j

\* lines 329-331: a stable sort by the index of the day
RECURSIVE SortByDay(_, _)
SortByDay(sessions, trainingDays) ==
    IF sessions = <<>> THEN <<>>
    ELSE LET key(s) == IndexOfDay(trainingDays, s.day)
             first == CHOOSE i \in 1..Len(sessions) :
                          \A j \in 1..Len(sessions) :
                              \/ key(sessions[i]) < key(sessions[j])
                              \/ key(sessions[i]) = key(sessions[j]) /\ i <= j
             others == [k \in 1..(Len(sessions) - 1) |->
                           IF k < first THEN sessions[k] ELSE sessions[k + 1]]
         IN  <<sessions[first]>> \o SortByDay(others, trainingDays)

\* lines 283-340: the sessions of the returned week
repairWeekSessions(rawSessions, trainingDays, daysPerWeek) ==
    LET uniqueByDay == UniqueByDay(Normalized(rawSessions, trainingDays), {})
        seen == {trim(uniqueByDay[i].day) : i \in 1..Len(uniqueByDay)}
        missing == SelectSeq(trainingDays, LAMBDA d : d \notin seen)
        filled == uniqueByDay \o [i \in 1..Len(missing) |-> makeFallbackSession(missing[i])]
        sorted == SortByDay(filled, trainingDays)
    IN  SubSeq(sorted, 1, MathMin(daysPerWeek, Len(sorted)))

\* lines 407-431: the check of a repaired week
RepairCheck(sessions, trainingDays, daysPerWeek) ==
    IF Len(sessions) # daysPerWeek THEN "Repair failed: sessions"
    ELSE IF \E i \in 1..Len(trainingDays) :
                \A k \in 1..Len(sessions) : sessions[k].day # trainingDays[i]
         THEN "Repair failed: missing day"
         ELSE "ok"

\* lines 357-362: the days of the request, or the first daysPerWeek of
\* DEFAULT_ORDER; the schema (lines 17-45) admits only lists of weekdays
\* without duplicates
TrainingDayLists ==
    {SubSeq(DEFAULT_ORDER, 1, n) : n \in {1, 2, 7}}
    \cup {<<Weekday.Thursday, Weekday.Monday>>,
          <<Weekday.Friday, Weekday.Thursday, Weekday.Monday>>}

\* the field day of the sessions the model answers with
RawDays ==
    {<<"M", "o", "n", "d", "a", "y">>,
     <<"m", "o", "n", "d", "a", "y">>,
     <<" ", "T", "h", "u", "r", "s", "d", "a", "y", " ">>,
     <<"T", "H", "U">>,
     <<"T", "u", "e", "s">>,
     <<"F", "u", "n", "d", "a", "y">>,
     <<"M", "o", "n", "s", "t", "e", "r">>,
     <<>>}

RawSessions ==
    {[day |-> d, exercises |-> <<"Squat">>] : d \in RawDays}
    \cup {[day |-> Weekday.Monday, exercises |-> <<>>], [day |-> Weekday.Thursday],
          [exercises |-> <<"Row", "Curl">>]}

RECURSIVE SeqsUpTo(_, _)
SeqsUpTo(S, n) ==
    IF n = 0 THEN {<<>>}
    ELSE LET shorter == SeqsUpTo(S, n - 1)
         IN  shorter \cup {Append(q, x) : q \in shorter, x \in S}

PlanCalls ==
    {[fn |-> "repairWeekSessions", rawSessions |-> raw, trainingDays |-> td,
      daysPerWeek |-> Len(td), repaired |-> FALSE, sessions |-> <<>>, check |-> "none"] :
        raw \in SeqsUpTo(RawSessions, MaxSessions), td \in TrainingDayLists}

\* lines 396-431: the week is repaired and checked
PlanRepair ==
    /\ calc.fn = "repairWeekSessions" /\ ~calc.repaired
    /\ LET sessions == repairWeekSessions(calc.rawSessions, calc.trainingDays, calc.daysPerWeek)
       IN  calc' = [calc EXCEPT !.repaired = TRUE, !.sessions = sessions,
                                !.check = RepairCheck(sessions, calc.trainingDays,
                                                      calc.daysPerWeek)]
    /\ UNCHANGED <<inputs, modelFiles, retinaSession, nCreated, loadFailed, rq>>

InitPlan ==
    /\ inputs = PlainInputs
    /\ modelFiles = FileNames
    /\ retinaSession = Null
    /\ nCreated = 0
    /\ loadFailed = FALSE
    /\ rq = [r \in Reqs |-> [IdleReq EXCEPT !.pc = "off"]]
    /\ calc \in PlanCalls

NextPlan == PlanRepair

SpecPlan == InitPlan /\ [][NextPlan]_vars

\* C29: for every list of raw sessions and every list of training days
\* without duplicates, with daysPerWeek its length, the repaired week has
\* exactly daysPerWeek sessions, the i-th on the i-th training day, each
\* with at least one exercise, and the check after the repair passes.
C29_RepairNormalises ==
    (calc.fn = "repairWeekSessions" /\ calc.repaired) =>
        /\ Len(calc.sessions) = calc.daysPerWeek
        /\ \A i \in 1..Len(calc.sessions) :
              /\ calc.sessions[i].day = calc.trainingDays[i]
              /\ Len(calc.sessions[i].exercises) >= 1
        /\ calc.check = "ok"

\* a repaired week built from a duplicate day, a day given by its short
\* form out of order, and a fallback session
C29_Witness ==
    /\ calc.fn = "repairWeekSessions" /\ calc.repaired
    /\ calc.trainingDays = <<Weekday.Friday, Weekday.Thursday, Weekday.Monday>>
    /\ calc.rawSessions = <<[day |-> Weekday.Monday, exercises |-> <<"Squat">>],
                            [day |-> <<"m", "o", "n", "d", "a", "y">>, exercises |-> <<"Squat">>],
                            [day |-> <<"T", "H", "U">>, exercises |-> <<"Squat">>]>>
    /\ calc.sessions[1] = makeFallbackSession(Weekday.Friday)

(***************************************************************************)
(* unnamed/part_005: the cache of the best image resolution, lines 203-248. *)
(* calc holds the clock, the entry of imgCache for one exercise id, and    *)
(* the calls of getBestImageResolution for that id: the workers of one     *)
(* request (line 594) and concurrent requests call it concurrently.        *)
(***************************************************************************)
\* how often the clock advances in a run
MaxTicks == 3

\* line 208
IMG_TTL_MS == 1000 * 60 * 60 * 24

\* line 237
Resolutions == <<"360", "180", "90">>
\* the value null of the type string | null
NoRes == "null"

\* imgCache.get(id) of an id without entry
NoEntry == [present |-> FALSE]

IdleCall == [pc |-> "idle", k |-> 0, answers |-> <<>>, fromCache |-> FALSE, result |-> NoRes]

ImgCalls ==
    {[fn |-> "getBestImageResolution", now |-> 0, ticks |-> 0, imgCache |-> NoEntry,
      call |-> [c \in Reqs |-> IdleCall]]}

\* an entry that imgCacheGet serves at time now
Unexpired(entry, now) == entry.present /\ ~(now > entry.expiresAt)

\* lines 220-222
imgCacheSet(res, now) == [present |-> TRUE, res |-> res, expiresAt |-> now + IMG_TTL_MS]

\* Date.now() advances, by a millisecond or by the time to live
ImgTick ==
    /\ calc.fn = "getBestImageResolution" /\ calc.ticks < MaxTicks
    /\ \E d \in {1, IMG_TTL_MS} :
         calc' = [calc EXCEPT !.now = @ + d, !.ticks = @ + 1]
    /\ UNCHANGED <<inputs, modelFiles, retinaSession, nCreated, loadFailed, rq>>

\* lines 225-239: imgCacheGet (lines 210-218) serves an unexpired entry and
\* deletes an expired one; on a miss the first resolution is requested
ImgCall(c) ==
    /\ calc.fn = "getBestImageResolution" /\ calc.call[c].pc = "idle"
    /\ calc' =
         IF Unexpired(calc.imgCache, calc.now)
         THEN [calc EXCEPT !.call[c] = [IdleCall EXCEPT !.pc = "done", !.fromCache = TRUE,
                                                        !.result = calc.imgCache.res]]
         ELSE [calc EXCEPT !.imgCache = NoEntry,
                           !.call[c] = [IdleCall EXCEPT !.pc = "fetch", !.k = 1]]
    /\ UNCHANGED <<inputs, modelFiles, retinaSession, nCreated, loadFailed, rq>>

\* the fetch of line 239 settles: it rejects, or lines 240-247 run on r.ok
ImgFetchDone(c) ==
    /\ calc.fn = "getBestImageResolution" /\ calc.call[c].pc = "fetch"
    /\ LET k == calc.call[c].k
       IN  \/ calc' = [calc EXCEPT !.call[c].pc = "threw"]
           \/ \E ok \in BOOLEAN :
                LET answers == Append(calc.call[c].answers, ok)
                IN  calc' =
                      IF ok
                      THEN [calc EXCEPT !.imgCache = imgCacheSet(Resolutions[k], calc.now),
                                        !.call[c] = [@ EXCEPT !.pc = "done", !.answers = answers,
                                                              !.result = Resolutions[k]]]
                      ELSE IF k < Len(Resolutions)
                      THEN [calc EXCEPT !.call[c] = [@ EXCEPT !.k = k + 1, !.answers = answers]]
                      ELSE [calc EXCEPT !.imgCache = imgCacheSet(NoRes, calc.now),
                                        !.call[c] = [@ EXCEPT !.pc = "done", !.answers = answers,
                                                              !.result = NoRes]]
    /\ UNCHANGED <<inputs, modelFiles, retinaSession, nCreated, loadFailed, rq>>

\* the caller (lines 260, 268, 317) has the result; it may call again
ImgReturn(c) ==
    /\ calc.fn = "getBestImageResolution" /\ calc.call[c].pc \in {"done", "threw"}
    /\ calc' = [calc EXCEPT !.call[c] = IdleCall]
    /\ UNCHANGED <<inputs, modelFiles, retinaSession, nCreated, loadFailed, rq>>

InitImg ==
    /\ inputs = PlainInputs
    /\ modelFiles = FileNames
    /\ retinaSession = Null
    /\ nCreated = 0
    /\ loadFailed = FALSE
    /\ rq = [r \in Reqs |-> [IdleReq EXCEPT !.pc = "off"]]
    /\ calc \in ImgCalls

NextImg ==
    \/ ImgTick
    \/ \E c \in Reqs : ImgCall(c)
    \/ \E c \in Reqs : ImgFetchDone(c)
    \/ \E c \in Reqs : ImgReturn(c)

SpecImg == InitImg /\ [][NextImg]_vars

\* call c sends a request to the upstream in this step
SendsFetch(c) ==
    /\ calc'.call[c].pc = "fetch"
    /\ calc.call[c].pc # "fetch" \/ calc'.call[c].k # calc.call[c].k

\* the first resolution the upstream answered ok for, or null
FirstOk(answers) ==
    LET S == {i \in 1..Len(answers) : answers[i]}
    IN  IF S = {} THEN NoRes ELSE Resolutions[CHOOSE i \in S : \A j \in S : i <= j]

\* C30: getBestImageResolution sends a request to the upstream only when
\* there is no unexpired entry for the exercise id; while an unexpired entry
\* exists, a call returns its result (null included) without any request;
\* an entry read after its expiry is deleted and not returned; and on a
\* miss the result is the first of 360, 180, 90 that was answered ok.
C30_ImageCache ==
    [][\A c \in Reqs :
         /\ SendsFetch(c) => ~Unexpired(calc.imgCache, calc.now)
         /\ (calc.call[c].pc = "idle" /\ calc'.call[c].pc # "idle") =>
               IF Unexpired(calc.imgCache, calc.now)
               THEN /\ calc'.call[c].pc = "done" /\ calc'.call[c].result = calc.imgCache.res
                    /\ calc'.imgCache = calc.imgCache
               ELSE calc'.imgCache = NoEntry /\ calc'.call[c].pc = "fetch"
         /\ (calc.call[c].pc = "fetch" /\ calc'.call[c].pc = "done") =>
               /\ calc'.call[c].result = FirstOk(calc'.call[c].answers)
               /\ calc'.imgCache.res = calc'.call[c].result]_vars

====
